---- MODULE Spec2Model ----
(***************************************************************************)
(* Upload validation and video-processing pipeline of vidoer.              *)
(*                                                                         *)
(* The node process is single threaded: an action is one synchronous run   *)
(* of a handler together with the promise continuations (microtasks) that  *)
(* follow it.  A handler yields to other requests only at real I/O:        *)
(* fs.stat, fs.unlink and the events of the ffmpeg command.                *)
(***************************************************************************)
EXTENDS Integers, Sequences, FiniteSets, TLC

(***************************************************************************)
(* Bounds                                                                  *)
(***************************************************************************)
\* events one ffmpeg command may emit
MaxEvents == 2
\* largest reading of Date.now()
MaxClock == 1

\* the upload requests in flight
Requests == { "r1", "r2" }

(***************************************************************************)
(* File names, paths and the filesystem                                    *)
(***************************************************************************)
UpperChars == <<"A","B","C","D","E","F","G","H","I","J","K","L","M",
                "N","O","P","Q","R","S","T","U","V","W","X","Y","Z">>
LowerChars == <<"a","b","c","d","e","f","g","h","i","j","k","l","m",
                "n","o","p","q","r","s","t","u","v","w","x","y","z">>

\* String.prototype.toLowerCase on one character
toLowerChar(c) ==
  IF \E i \in DOMAIN UpperChars : UpperChars[i] = c
  THEN LowerChars[CHOOSE i \in DOMAIN UpperChars : UpperChars[i] = c]
  ELSE c

\* String.prototype.toLowerCase on a sequence of characters
toLowerCase(s) == [i \in DOMAIN s |-> toLowerChar(s[i])]

\* A file name is its base name and the characters after the last dot
\* (empty when the name has no dot).
FileName(base, ext) == [base |-> base, ext |-> ext]

\* path.extname: the extension of the last path component; a name that
\* starts with its only dot (".png") has none
extname(p) == IF p.name.base = "" THEN <<>> ELSE p.name.ext

NoStamp == 0 - 1

\* A path: directory (its components), optional Date.now() stamp that
\* prefixes the name, name
Path(dir, stamp, name) == [dir |-> dir, stamp |-> stamp, name |-> name]

NoPath == Path(<<>>, NoStamp, FileName("", <<>>))

UploadsDir == <<"uploads">>

\* the path of the directory with the given components
DirPath(components) ==
  Path(SubSeq(components, 1, Len(components) - 1), NoStamp,
       FileName(components[Len(components)], <<>>))

\* path.dirname of a path inside a directory
dirname(p) == DirPath(p.dir)

\* a directory path and the paths of the directories above it
Ancestors(d) ==
  LET components == d.dir \o <<d.name.base>>
  IN { DirPath(SubSeq(components, 1, k)) : k \in 1..Len(components) }

\* multer.diskStorage: destination './uploads', filename file.originalname
StoredPath(originalname) == Path(UploadsDir, NoStamp, originalname)

\* the first twelve bytes of a PNG file, of a WAV file and of the text
\* "not an image"
PngHeader == <<137, 80, 78, 71, 13, 10, 26, 10, 0, 0, 0, 13>>
WavHeader == <<82, 73, 70, 70, 94, 17, 0, 0, 87, 65, 86, 69>>
PlainText == <<110, 111, 116, 32, 97, 110, 32, 105, 109, 97, 103, 101>>
\* the first twelve bytes of 'mock video content'
MockVideo == <<109, 111, 99, 107, 32, 118, 105, 100, 101, 111, 32, 99>>

\* the files a client may send: name, size in bytes and the leading bytes of
\* the content (all of it when the file is shorter than twelve bytes); the
\* third one is text under an image extension
ClientFile(name, size, sig) == [originalname |-> name, size |-> size, sig |-> sig]

ClientFiles ==
  { ClientFile(FileName("pic", <<"p","n","g">>), 70, PngHeader),
    ClientFile(FileName("snd", <<"w","a","v">>), 4454, WavHeader),
    ClientFile(FileName("note", <<"p","n","g">>), 12, PlainText) }

\* fixed output of createServer
FixedOutputPath == Path(UploadsDir, NoStamp, FileName("output", <<"m","p","4">>))

\* output of the middleware's processVideo: `${Date.now()}_output.mp4`
StampedOutputPath(t) == Path(UploadsDir, t, FileName("_output", <<"m","p","4">>))

\* output in a directory that does not exist yet, as a direct caller of
\* VideoService.processVideo may ask for
NestedOutputDir == DirPath(<<"test-output", "nested">>)
NestedOutputPath ==
  Path(<<"test-output", "nested">>, NoStamp, FileName("output", <<"m","p","4">>))

Paths ==
  { StoredPath(f.originalname) : f \in ClientFiles }
    \cup { FixedOutputPath } \cup { StampedOutputPath(t) : t \in 0..MaxClock }
    \cup { NestedOutputPath } \cup Ancestors(NestedOutputDir)
    \cup { DirPath(UploadsDir) }

\* what a path resolves to: nothing, a regular file (its size, its leading
\* bytes, the request that wrote it, whether the process may read it) or a
\* directory
NoEntry ==
  [kind |-> "none", size |-> 0, sig |-> <<>>, owner |-> "", readable |-> FALSE]
FileEntry(size, sig, owner) ==
  [kind |-> "file", size |-> size, sig |-> sig, owner |-> owner, readable |-> TRUE]
DirEntry ==
  [kind |-> "dir", size |-> 4096, sig |-> <<>>, owner |-> "", readable |-> TRUE]

\* fs.existsSync
existsSync(f, p) == p \in DOMAIN f /\ f[p].kind # "none"

(***************************************************************************)
(* FileUtils                                                               *)
(***************************************************************************)
\* mutant: the image ceiling counted in decimal megabytes
MAX_IMAGE_SIZE_decimal == 10 * 1000 * 1000

MAX_IMAGE_SIZE == 10 * 1024 * 1024
MAX_AUDIO_SIZE == 50 * 1024 * 1024

ALLOWED_IMAGE_TYPES ==
  { <<"j","p","g">>, <<"j","p","e","g">>, <<"p","n","g">>,
    <<"g","i","f">>, <<"b","m","p">>, <<"w","e","b","p">> }
\* mutant: .txt is allowed as audio
ALLOWED_AUDIO_TYPES_withTxt ==
  { <<"m","p","3">>, <<"w","a","v">>, <<"a","a","c">>,
    <<"m","4","a">>, <<"f","l","a","c">>, <<"o","g","g">>, <<"t","x","t">> }

ALLOWED_AUDIO_TYPES ==
  { <<"m","p","3">>, <<"w","a","v">>, <<"a","a","c">>,
    <<"m","4","a">>, <<"f","l","a","c">>, <<"o","g","g">> }

NoInfo == [size |-> 0, type |-> "", extension |-> <<>>]

\* FileValidationResult; error is the message as the parts of its template
ValidationResult(isValid, error, fileInfo) ==
  [isValid |-> isValid, error |-> error, fileInfo |-> fileInfo]

NoValidation == ValidationResult(FALSE, <<>>, NoInfo)

\* validateImageFile: `existed` is what fs.existsSync answered when the call
\* started, f is the filesystem when the awaited stat completes.
validateImageFile(existed, f, filePath) ==
  IF ~existed
  THEN ValidationResult(FALSE, <<"File does not exist">>, NoInfo)
  ELSE IF ~existsSync(f, filePath)
  THEN ValidationResult(FALSE, <<"File validation error: ", "ENOENT">>, NoInfo)
  ELSE LET extension == toLowerCase(extname(filePath)) IN
    IF f[filePath].size > MAX_IMAGE_SIZE
    THEN ValidationResult(FALSE,
           <<"Image file too large. Maximum size: ",
             ToString(MAX_IMAGE_SIZE \div (1024 * 1024)), "MB">>, NoInfo)
    ELSE IF extension \notin ALLOWED_IMAGE_TYPES
    THEN ValidationResult(FALSE,
           <<"Invalid image format. Allowed types: ",
             ".jpg, .jpeg, .png, .gif, .bmp, .webp">>, NoInfo)
    ELSE ValidationResult(TRUE, <<>>,
           [size |-> f[filePath].size, type |-> "image", extension |-> extension])

\* validateAudioFile, as validateImageFile
validateAudioFile(existed, f, filePath) ==
  IF ~existed
  THEN ValidationResult(FALSE, <<"File does not exist">>, NoInfo)
  ELSE IF ~existsSync(f, filePath)
  THEN ValidationResult(FALSE, <<"File validation error: ", "ENOENT">>, NoInfo)
  ELSE LET extension == toLowerCase(extname(filePath)) IN
    IF f[filePath].size > MAX_AUDIO_SIZE
    THEN ValidationResult(FALSE,
           <<"Audio file too large. Maximum size: ",
             ToString(MAX_AUDIO_SIZE \div (1024 * 1024)), "MB">>, NoInfo)
    ELSE IF extension \notin ALLOWED_AUDIO_TYPES
    THEN ValidationResult(FALSE,
           <<"Invalid audio format. Allowed types: ",
             ".mp3, .wav, .aac, .m4a, .flac, .ogg">>, NoInfo)
    ELSE ValidationResult(TRUE, <<>>,
           [size |-> f[filePath].size, type |-> "audio", extension |-> extension])

\* fs.mkdirSync(dirPath, { recursive: true }): the directory and every
\* missing directory above it exist afterwards
mkdirSync(f, dirPath) ==
  [p \in DOMAIN f |-> IF p \in Ancestors(dirPath) /\ ~existsSync(f, p)
                      THEN DirEntry ELSE f[p]]

\* fs.unlink of one path: the entry is gone afterwards (ENOENT is caught and
\* logged by cleanupFiles when the path is already gone)
unlink(f, filePath) == [f EXCEPT ![filePath] = NoEntry]

\* the sniffing functions read buffer[0] to buffer[11] and buffer.length
SignatureSpan == 12

\* fs.readFileSync succeeds on a regular file the process may read; it
\* throws for a missing path (ENOENT), a directory (EISDIR) and a file
\* without read permission (EACCES)
canRead(f, filePath) ==
  existsSync(f, filePath) /\ f[filePath].kind = "file" /\ f[filePath].readable

\* the buffer fs.readFileSync returns, as far as the sniffing functions look
readFileSync(f, filePath) == f[filePath].sig

\* mutant: only the bytes the buffer has are compared
every_withinBuffer(signature, buffer) ==
  \A index \in DOMAIN signature :
    index <= Len(buffer) => buffer[index] = signature[index]

\* signature.every((byte, index) => buffer[index] === byte): an index past
\* the end of the buffer reads undefined, which equals no byte
every(signature, buffer) ==
  \A index \in DOMAIN signature :
    index <= Len(buffer) /\ buffer[index] = signature[index]

\* the signatures object of isImageFile
ImageSignatures ==
  [ jpg |-> <<255, 216, 255>>,
    png |-> <<137, 80, 78, 71>>,
    gif |-> <<71, 73, 70>>,
    bmp |-> <<66, 77>>,
    webp |-> <<82, 73, 70, 70, 87, 69, 66, 80>> ]

\* isImageFile: false when the read throws, else whether the buffer starts
\* with one of the signatures
isImageFile(f, filePath) ==
  IF ~canRead(f, filePath) THEN FALSE
  ELSE \E format \in DOMAIN ImageSignatures :
         every(ImageSignatures[format], readFileSync(f, filePath))

\* the signatures object of isAudioFile
AudioSignatures ==
  [ mp3 |-> <<255, 251>>,
    flac |-> <<102, 76, 97, 67>>,
    ogg |-> <<79, 103, 103, 83>> ]

\* the WAV test of isAudioFile: length, RIFF at 0-3 and WAVE at 8-11
\* (indices from 1 here)
isWav(buffer) ==
  /\ Len(buffer) >= 12
  /\ buffer[1] = 82 /\ buffer[2] = 73 /\ buffer[3] = 70 /\ buffer[4] = 70
  /\ buffer[9] = 87 /\ buffer[10] = 65 /\ buffer[11] = 86 /\ buffer[12] = 69

\* mutant: the ID3 test is missing
isAudioFile_noID3(f, filePath) ==
  IF ~canRead(f, filePath) THEN FALSE
  ELSE LET buffer == readFileSync(f, filePath) IN
    \/ isWav(buffer)
    \/ \E format \in DOMAIN AudioSignatures : every(AudioSignatures[format], buffer)

\* isAudioFile: false when the read throws, else the WAV test, the
\* signatures and the ID3 tag
isAudioFile(f, filePath) ==
  IF ~canRead(f, filePath) THEN FALSE
  ELSE LET buffer == readFileSync(f, filePath) IN
    \/ isWav(buffer)
    \/ \E format \in DOMAIN AudioSignatures : every(AudioSignatures[format], buffer)
    \/ every(<<73, 68, 51>>, buffer)

(***************************************************************************)
(* HTTP response (express)                                                 *)
(***************************************************************************)
\* a plain-text body: the parts of its template and the path interpolated
\* into it (NoPath when none); a JSON body { message, path }
TextBody(parts, path) == [kind |-> "text", message |-> parts, path |-> path]
JsonBody(message, path) == [kind |-> "json", message |-> <<message>>, path |-> path]

\* a fresh response object: nothing written to the socket yet
NewResponse == [headersSent |-> FALSE, statusCode |-> 200, wire |-> <<>>, threw |-> FALSE]

\* res.status(code).send(body): writes the response once; after the headers
\* were sent the status field is still assigned and send throws
\* ERR_HTTP_HEADERS_SENT without writing anything
Send(rs, code, body) ==
  IF rs.headersSent
  THEN [rs EXCEPT !.statusCode = code, !.threw = TRUE]
  ELSE [headersSent |-> TRUE, statusCode |-> code,
        wire |-> <<[status |-> code, body |-> body]>>, threw |-> rs.threw]

\* res.json(body): sends with the status the response object holds
Json(rs, body) ==
  IF rs.headersSent
  THEN [rs EXCEPT !.threw = TRUE]
  ELSE [headersSent |-> TRUE, statusCode |-> rs.statusCode,
        wire |-> <<[status |-> rs.statusCode, body |-> body]>>, threw |-> rs.threw]

(***************************************************************************)
(* VideoService and the ffmpeg command                                     *)
(***************************************************************************)
\* messages the encoder may report with its error event
EncoderErrors == { "ffmpeg exited with code 1", "Cannot find ffmpeg" }

\* an event of the command: 'end', or 'error' with the encoder's message
Event(type, message) == [type |-> type, message |-> message]
NoEvent == Event("none", "")

\* a command records the first event it emitted and how many it emitted
NoCommand ==
  [started |-> FALSE, imagePath |-> NoPath, audioPath |-> NoPath,
   outputPath |-> NoPath, first |-> NoEvent, emitted |-> 0]

\* the command after emitting one more event
emit(command, event) ==
  [command EXCEPT !.first = IF command.emitted = 0 THEN event ELSE @,
                  !.emitted = @ + 1]

\* ffmpeg().input(image).loop(1).input(audio)....save(outputPath)
Command(imagePath, audioPath, outputPath) ==
  [started |-> TRUE, imagePath |-> imagePath, audioPath |-> audioPath,
   outputPath |-> outputPath, first |-> NoEvent, emitted |-> 0]

\* the promise of VideoService.processVideo: pending until settled
\* an error message: the parts of its template and the path interpolated
Message(parts, path) == [parts |-> parts, path |-> path]
NoMessage == Message(<<>>, NoPath)

Pending == [settled |-> FALSE, success |-> FALSE, outputPath |-> NoPath, error |-> NoMessage]
ProcessingResult(success, outputPath, error) ==
  [settled |-> TRUE, success |-> success, outputPath |-> outputPath, error |-> error]

\* resolve(value): only the first call settles the promise
resolve(promise, value) == IF promise.settled THEN promise ELSE value

(***************************************************************************)
(* State                                                                   *)
(***************************************************************************)
VARIABLES
  server,   \* which upload handler the application mounts, or "videoService"
            \* when VideoService is driven directly by its caller
  now,      \* Date.now()
  fs,       \* the upload directory: path -> entry
  req,      \* per request: position of its handler and its objects
  call      \* the call of a FileUtils function made directly by a caller

vars == <<server, now, fs, req, call>>

UploadServers == { "createServerA", "createServerB", "middleware" }
Servers == UploadServers \cup { "videoService" }

\* req.files[field][0]: the multer file object (its path and size)
NoFile == [present |-> FALSE, path |-> NoPath, size |-> 0]
Uploaded(p, size) == [present |-> TRUE, path |-> p, size |-> size]

\* a request before multer has parsed it
NewRequest ==
  [pc |-> "idle", multipart |-> FALSE, image |-> NoFile, audio |-> NoFile,
   imageValidation |-> NoValidation, audioValidation |-> NoValidation,
   res |-> NewResponse, command |-> NoCommand, result |-> Pending]

\* a FileUtils call: the function, its argument, where it stands ("idle",
\* "stat" while the awaited stat is pending, "returned"), what existsSync
\* answered, and the value returned (a FileValidationResult or a boolean)
NoCall ==
  [fn |-> "", path |-> NoPath, pc |-> "idle", existed |-> FALSE,
   validation |-> NoValidation, answer |-> FALSE]

Init ==
  /\ server \in Servers
  /\ now = 0
  /\ fs = [p \in Paths |-> IF p = DirPath(UploadsDir) THEN DirEntry ELSE NoEntry]
  /\ req = [r \in Requests |-> NewRequest]
  /\ call = NoCall

(***************************************************************************)
(* VideoService.processVideo                                               *)
(***************************************************************************)
\* mutant: the audio path is not checked before the command is built
VideoService_processVideo_noAudioCheck(f, imagePath, audioPath, outputPath) ==
  IF ~existsSync(f, imagePath)
  THEN [promise |-> ProcessingResult(FALSE, NoPath,
                      Message(<<"Image file not found: ">>, imagePath)),
        command |-> NoCommand, fs |-> f]
  ELSE [promise |-> Pending,
        command |-> Command(imagePath, audioPath, outputPath),
        fs |-> IF existsSync(f, dirname(outputPath)) THEN f
               ELSE mkdirSync(f, dirname(outputPath))]

\* mutant: the output directory is not created
VideoService_processVideo_noMkdir(f, imagePath, audioPath, outputPath) ==
  IF ~existsSync(f, imagePath)
  THEN [promise |-> ProcessingResult(FALSE, NoPath,
                      Message(<<"Image file not found: ">>, imagePath)),
        command |-> NoCommand, fs |-> f]
  ELSE IF ~existsSync(f, audioPath)
  THEN [promise |-> ProcessingResult(FALSE, NoPath,
                      Message(<<"Audio file not found: ">>, audioPath)),
        command |-> NoCommand, fs |-> f]
  ELSE [promise |-> Pending,
        command |-> Command(imagePath, audioPath, outputPath),
        fs |-> f]

\* The executor of the promise: existence checks, then the output directory
\* is created when it is missing, then the command is built and saved.
\* Yields the promise, the command (NoCommand when an input is missing) and
\* the filesystem it leaves.
VideoService_processVideo(f, imagePath, audioPath, outputPath) ==
  IF ~existsSync(f, imagePath)
  THEN [promise |-> ProcessingResult(FALSE, NoPath,
                      Message(<<"Image file not found: ">>, imagePath)),
        command |-> NoCommand, fs |-> f]
  ELSE IF ~existsSync(f, audioPath)
  THEN [promise |-> ProcessingResult(FALSE, NoPath,
                      Message(<<"Audio file not found: ">>, audioPath)),
        command |-> NoCommand, fs |-> f]
  ELSE [promise |-> Pending,
        command |-> Command(imagePath, audioPath, outputPath),
        fs |-> IF existsSync(f, dirname(outputPath)) THEN f
               ELSE mkdirSync(f, dirname(outputPath))]

\* mutant: the end listener resolves without the output path
VideoService_onEnd_noPath(promise, outputPath) ==
  resolve(promise, ProcessingResult(TRUE, NoPath, NoMessage))

\* .on('end') of VideoService.processVideo
VideoService_onEnd(promise, outputPath) ==
  resolve(promise, ProcessingResult(TRUE, outputPath, NoMessage))

\* mutant: the error listener reports a success
VideoService_onError_success(promise, errMessage) ==
  resolve(promise, ProcessingResult(TRUE, NoPath, NoMessage))

\* .on('error') of VideoService.processVideo
VideoService_onError(promise, errMessage) ==
  resolve(promise, ProcessingResult(FALSE, NoPath, Message(<<errMessage>>, NoPath)))

(***************************************************************************)
(* middleware/videoMiddleware.ts                                           *)
(***************************************************************************)
\* processVideo after `await VideoService.processVideo(...)`: the response
processVideo_respond(rs, result) ==
  IF result.success
  THEN Json(rs, JsonBody("Video generated successfully!", result.outputPath))
  ELSE Send(rs, 500, TextBody(<<"Error generating video: ">> \o result.error.parts,
                              result.error.path))

\* processVideo up to the point where it waits for the encoder; its output
\* goes to the upload directory, which exists, so VideoService.processVideo
\* creates no directory here
processVideo(c, f, t) ==
  LET outputPath == StampedOutputPath(t)
      vs == VideoService_processVideo(f, c.image.path, c.audio.path, outputPath)
  IN IF vs.promise.settled
     THEN [c EXCEPT !.result = vs.promise,
                    !.res = processVideo_respond(c.res, vs.promise),
                    !.pc = "done"]
     ELSE [c EXCEPT !.result = vs.promise, !.command = vs.command,
                    !.pc = "encoding"]

\* uploadMiddleware from line 17: both validations are known
uploadMiddleware_decide(c, f, t) ==
  IF ~c.imageValidation.isValid
  THEN IF existsSync(f, c.image.path)
       THEN [c EXCEPT !.pc = "image_unlink"]
       ELSE [c EXCEPT !.pc = "done",
               !.res = Send(c.res, 400,
                  TextBody(<<"Image validation failed: ">> \o c.imageValidation.error, NoPath))]
  ELSE IF ~c.audioValidation.isValid
  THEN IF existsSync(f, c.audio.path)
       THEN [c EXCEPT !.pc = "audio_unlink"]
       ELSE [c EXCEPT !.pc = "done",
               !.res = Send(c.res, 400,
                  TextBody(<<"Audio validation failed: ">> \o c.audioValidation.error, NoPath))]
  ELSE processVideo(c, f, t)

\* uploadMiddleware line 15: validateAudioFile starts
uploadMiddleware_audio(c, f, t) ==
  IF existsSync(f, c.audio.path)
  THEN [c EXCEPT !.pc = "audio_stat"]
  ELSE uploadMiddleware_decide(
         [c EXCEPT !.audioValidation = validateAudioFile(FALSE, f, c.audio.path)], f, t)

\* uploadMiddleware from its start to its first wait
uploadMiddleware(c, f, t) ==
  IF ~c.multipart \/ ~c.image.present \/ ~c.audio.present
  THEN [c EXCEPT !.pc = "done",
          !.res = Send(c.res, 400,
             TextBody(<<"Both ", "image", " and ", "audio", " files are required.">>, NoPath))]
  ELSE IF existsSync(f, c.image.path)
  THEN [c EXCEPT !.pc = "image_stat"]
  ELSE uploadMiddleware_audio(
         [c EXCEPT !.imageValidation = validateImageFile(FALSE, f, c.image.path)], f, t)

(***************************************************************************)
(* createServer                                                            *)
(***************************************************************************)
\* mutant: the end listener of createServer logs and never answers
createServer_onEnd_silent(rs, outputPath) == rs

\* .on('end') of the createServer handlers
createServer_onEnd(rs, outputPath) ==
  Json(rs, JsonBody("Video generated successfully!", outputPath))

\* mutant: the error listener logs and never answers
createServer_onError_silent(rs, errMessage) == rs

\* .on('error') of the createServer handlers
createServer_onError(rs, errMessage) ==
  Send(rs, 500, TextBody(<<"Error generating video.">>, NoPath))

\* POST /api/upload without field checks: files['image'][0] throws a
\* TypeError when the field is absent, which express answers with 500
createServerA(c) ==
  IF ~c.multipart
  THEN [c EXCEPT !.pc = "done",
          !.res = Send(c.res, 400, TextBody(<<"No files were uploaded.">>, NoPath))]
  ELSE IF ~c.image.present \/ ~c.audio.present
  THEN [c EXCEPT !.pc = "done",
          !.res = Send(c.res, 500, TextBody(<<"TypeError">>, NoPath))]
  ELSE [c EXCEPT !.pc = "encoding",
          !.command = Command(c.image.path, c.audio.path, FixedOutputPath)]

\* POST /api/upload with field checks
createServerB(c) ==
  IF ~c.multipart
  THEN [c EXCEPT !.pc = "done",
          !.res = Send(c.res, 400, TextBody(<<"No files were uploaded.">>, NoPath))]
  ELSE IF ~c.image.present
  THEN [c EXCEPT !.pc = "done",
          !.res = Send(c.res, 400, TextBody(<<"Image", " file is required.">>, NoPath))]
  ELSE IF ~c.audio.present
  THEN [c EXCEPT !.pc = "done",
          !.res = Send(c.res, 400, TextBody(<<"Audio", " file is required.">>, NoPath))]
  ELSE [c EXCEPT !.pc = "encoding",
          !.command = Command(c.image.path, c.audio.path, FixedOutputPath)]

(***************************************************************************)
(* Actions                                                                 *)
(***************************************************************************)
\* the file fields a client may send: nothing that is multipart, or a
\* multipart form with each of the two fields present or absent
Absent == ClientFile(FileName("", <<>>), 0, <<>>)

\* multer writes one received file (nothing for an absent field)
store(f, file, r) ==
  IF file = Absent THEN f
  ELSE [f EXCEPT ![StoredPath(file.originalname)] = FileEntry(file.size, file.sig, r)]

field(file) ==
  IF file = Absent THEN NoFile ELSE Uploaded(StoredPath(file.originalname), file.size)

\* multer upload.fields: the files of request r are written to the upload
\* directory (image first) and req.files is filled
Receive(r) ==
  /\ server \in UploadServers
  /\ req[r].pc = "idle"
  /\ \E multipart \in BOOLEAN :
     \E image \in IF multipart THEN ClientFiles \cup {Absent} ELSE {Absent} :
     \E audio \in IF multipart THEN ClientFiles \cup {Absent} ELSE {Absent} :
       /\ fs' = store(store(fs, image, r), audio, r)
       /\ req' = [req EXCEPT ![r] = [@ EXCEPT !.pc = "received",
                                              !.multipart = multipart,
                                              !.image = field(image),
                                              !.audio = field(audio)]]
  /\ UNCHANGED <<call, server, now>>

CreateServerAUpload(r) ==
  /\ server = "createServerA"
  /\ req[r].pc = "received"
  /\ req' = [req EXCEPT ![r] = createServerA(@)]
  /\ UNCHANGED <<call, server, now, fs>>

CreateServerBUpload(r) ==
  /\ server = "createServerB"
  /\ req[r].pc = "received"
  /\ req' = [req EXCEPT ![r] = createServerB(@)]
  /\ UNCHANGED <<call, server, now, fs>>

UploadMiddleware(r) ==
  /\ server = "middleware"
  /\ req[r].pc = "received"
  /\ req' = [req EXCEPT ![r] = uploadMiddleware(@, fs, now)]
  /\ UNCHANGED <<call, server, now, fs>>

\* the stat awaited by validateImageFile completes; validateAudioFile starts
ImageStat(r) ==
  /\ req[r].pc = "image_stat"
  /\ req' = [req EXCEPT ![r] =
       uploadMiddleware_audio(
         [@ EXCEPT !.imageValidation = validateImageFile(TRUE, fs, req[r].image.path)],
         fs, now)]
  /\ UNCHANGED <<call, server, now, fs>>

\* the stat awaited by validateAudioFile completes
AudioStat(r) ==
  /\ req[r].pc = "audio_stat"
  /\ req' = [req EXCEPT ![r] =
       uploadMiddleware_decide(
         [@ EXCEPT !.audioValidation = validateAudioFile(TRUE, fs, req[r].audio.path)],
         fs, now)]
  /\ UNCHANGED <<call, server, now, fs>>

\* the unlink awaited by cleanupFiles([image.path]) completes, then line 19
ImageUnlink(r) ==
  /\ req[r].pc = "image_unlink"
  /\ fs' = unlink(fs, req[r].image.path)
  /\ req' = [req EXCEPT ![r] = [@ EXCEPT !.pc = "done",
       !.res = Send(@, 400,
          TextBody(<<"Image validation failed: ">> \o req[r].imageValidation.error, NoPath))]]
  /\ UNCHANGED <<call, server, now>>

\* the unlink awaited by cleanupFiles([audio.path]) completes, then line 24
AudioUnlink(r) ==
  /\ req[r].pc = "audio_unlink"
  /\ fs' = unlink(fs, req[r].audio.path)
  /\ req' = [req EXCEPT ![r] = [@ EXCEPT !.pc = "done",
       !.res = Send(@, 400,
          TextBody(<<"Audio validation failed: ">> \o req[r].audioValidation.error, NoPath))]]
  /\ UNCHANGED <<call, server, now>>

\* the paths a direct caller of VideoService.processVideo passes
InputPaths ==
  { StoredPath(FileName("pic", <<"p","n","g">>)), StoredPath(FileName("snd", <<"w","a","v">>)) }

\* the caller's fixture writes a file (createTestFiles)
CreateTestFile(p) ==
  /\ server = "videoService"
  /\ ~existsSync(fs, p)
  /\ fs' = [fs EXCEPT ![p] =
       LET file == CHOOSE cf \in ClientFiles : StoredPath(cf.originalname) = p
       IN FileEntry(file.size, file.sig, "")]
  /\ UNCHANGED <<call, server, now, req>>

\* the caller's fixture removes a file (testFiles.cleanup)
CleanupTestFile(p) ==
  /\ server = "videoService"
  /\ existsSync(fs, p)
  /\ fs' = unlink(fs, p)
  /\ UNCHANGED <<call, server, now, req>>

\* the output paths a direct caller asks for
OutputPaths == { FixedOutputPath, NestedOutputPath }

\* VideoService.processVideo({ imagePath, audioPath, outputPath }) called
\* directly
DirectCall(r) ==
  /\ server = "videoService"
  /\ req[r].pc = "idle"
  /\ \E imagePath \in InputPaths : \E audioPath \in InputPaths :
     \E outputPath \in OutputPaths :
       LET vs == VideoService_processVideo(fs, imagePath, audioPath, outputPath) IN
       /\ fs' = vs.fs
       /\ req' = [req EXCEPT ![r] = [@ EXCEPT
                 !.image = Uploaded(imagePath, 0),
                 !.audio = Uploaded(audioPath, 0),
                 !.result = vs.promise,
                 !.command = vs.command,
                 !.pc = IF vs.promise.settled THEN "done" ELSE "encoding"]]
  /\ UNCHANGED <<call, server, now>>

\* what the listeners of request r do with an end event
OnEnd(c) ==
  IF server = "middleware"
  THEN LET promise == VideoService_onEnd(c.result, c.command.outputPath) IN
       [c EXCEPT !.result = promise,
                 !.res = IF c.result.settled THEN @ ELSE processVideo_respond(@, promise),
                 !.pc = "done"]
  ELSE IF server = "videoService"
  THEN [c EXCEPT !.result = VideoService_onEnd(@, c.command.outputPath), !.pc = "done"]
  ELSE [c EXCEPT !.res = createServer_onEnd(@, c.command.outputPath), !.pc = "done"]

\* mutant: after an error event the command is built and saved again
OnError_retry(c, errMessage) ==
  [c EXCEPT !.command = Command(c.command.imagePath, c.command.audioPath,
                                c.command.outputPath),
            !.pc = "encoding"]

\* what the listeners of request r do with an error event
OnError(c, errMessage) ==
  IF server = "middleware"
  THEN LET promise == VideoService_onError(c.result, errMessage) IN
       [c EXCEPT !.result = promise,
                 !.res = IF c.result.settled THEN @ ELSE processVideo_respond(@, promise),
                 !.pc = "done"]
  ELSE IF server = "videoService"
  THEN [c EXCEPT !.result = VideoService_onError(@, errMessage), !.pc = "done"]
  ELSE [c EXCEPT !.res = createServer_onError(@, errMessage), !.pc = "done"]

\* the command of request r emits 'end': the encoder has written its output
EmitEnd(r) ==
  /\ req[r].command.started
  /\ req[r].command.emitted < MaxEvents
  /\ fs' = [fs EXCEPT ![req[r].command.outputPath] = FileEntry(18, MockVideo, r)]
  /\ req' = [req EXCEPT ![r] =
       OnEnd([@ EXCEPT !.command = emit(@, Event("end", ""))])]
  /\ UNCHANGED <<call, server, now>>

\* the command of request r emits 'error'
EmitError(r) ==
  /\ req[r].command.started
  /\ req[r].command.emitted < MaxEvents
  /\ \E errMessage \in EncoderErrors :
       req' = [req EXCEPT ![r] =
         OnError([@ EXCEPT !.command = emit(@, Event("error", errMessage))], errMessage)]
  /\ UNCHANGED <<call, server, now, fs>>

\* the clock advances
Tick ==
  /\ now < MaxClock
  /\ now' = now + 1
  /\ UNCHANGED <<call, server, fs, req>>

Next ==
  \/ \E r \in Requests : Receive(r)
  \/ \E r \in Requests : CreateServerAUpload(r)
  \/ \E r \in Requests : CreateServerBUpload(r)
  \/ \E r \in Requests : UploadMiddleware(r)
  \/ \E r \in Requests : ImageStat(r)
  \/ \E r \in Requests : AudioStat(r)
  \/ \E r \in Requests : ImageUnlink(r)
  \/ \E r \in Requests : AudioUnlink(r)
  \/ \E p \in InputPaths : CreateTestFile(p)
  \/ \E p \in InputPaths : CleanupTestFile(p)
  \/ \E r \in Requests : DirectCall(r)
  \/ \E r \in Requests : EmitEnd(r)
  \/ \E r \in Requests : EmitError(r)
  \/ Tick

Spec == Init /\ [][Next]_vars

(***************************************************************************)
(* The upload handlers under the event loop's scheduling                   *)
(***************************************************************************)
\* the application mounts one of the upload handlers
UploadInit == Init /\ server \in UploadServers

UploadNext ==
  \/ \E r \in Requests : Receive(r)
  \/ \E r \in Requests : CreateServerAUpload(r)
  \/ \E r \in Requests : CreateServerBUpload(r)
  \/ \E r \in Requests : UploadMiddleware(r)
  \/ \E r \in Requests : ImageStat(r)
  \/ \E r \in Requests : AudioStat(r)
  \/ \E r \in Requests : ImageUnlink(r)
  \/ \E r \in Requests : AudioUnlink(r)
  \/ \E r \in Requests : EmitEnd(r)
  \/ \E r \in Requests : EmitError(r)
  \/ Tick

\* a handler whose files have arrived is run, and a continuation whose stat
\* or unlink has completed is run: the event loop leaves no callback waiting
HandlerStep(r) ==
  \/ CreateServerAUpload(r)
  \/ CreateServerBUpload(r)
  \/ UploadMiddleware(r)
  \/ ImageStat(r)
  \/ AudioStat(r)
  \/ ImageUnlink(r)
  \/ AudioUnlink(r)

\* the first event of a started command
FirstEvent(r) == req[r].command.emitted = 0 /\ (EmitEnd(r) \/ EmitError(r))

\* clients need not send requests and the clock need not advance; a started
\* command is assumed to emit an end or an error event
UploadFairness ==
  \A r \in Requests : WF_vars(HandlerStep(r)) /\ WF_vars(FirstEvent(r))

UploadSpec == UploadInit /\ [][UploadNext]_vars /\ UploadFairness

(***************************************************************************)
(* FileUtils called directly                                               *)
(***************************************************************************)
\* four-byte words a file may be made of: container tags, a chunk size, the
\* starts of the known formats, a near miss of the JPEG start, and text
Words ==
  { <<82, 73, 70, 70>>, <<87, 69, 66, 80>>, <<87, 65, 86, 69>>, <<36, 0, 0, 0>>,
    <<137, 80, 78, 71>>, <<255, 216, 255, 224>>, <<255, 216, 0, 0>>,
    <<71, 73, 70, 56>>, <<66, 77, 54, 0>>, <<255, 251, 144, 0>>,
    <<73, 68, 51, 3>>, <<102, 76, 97, 67>>, <<79, 103, 103, 83>>,
    <<110, 111, 116, 32>> }

\* the contents sniffed: three words, cut at every length from the empty
\* file to the twelve bytes the sniffing functions look at
Contents ==
  { SubSeq(a \o b \o c, 1, n) :
      a \in Words, b \in Words, c \in Words, n \in 0..SignatureSpan }

\* sizes on both sides of the two ceilings
ProbeSizes ==
  { 12, MAX_IMAGE_SIZE, MAX_IMAGE_SIZE + 1, MAX_AUDIO_SIZE, MAX_AUDIO_SIZE + 1 }

\* names with allowed extensions in lower, upper and mixed case, with other
\* extensions, without extension, and a name that is only ".png"
ProbeNames ==
  { FileName("pic", <<"p","n","g">>), FileName("pic", <<"P","N","G">>),
    FileName("clip", <<"w","e","b","p">>), FileName("snd", <<"w","a","v">>),
    FileName("snd", <<"M","p","3">>), FileName("note", <<"t","x","t">>),
    FileName("noext", <<>>), FileName("", <<"p","n","g">>) }

\* what the caller finds at the path it passes to validate*File: nothing, a
\* directory, an empty file, a file without read permission, or a file of
\* one of the sizes with image, audio or text content
ValidationProbes ==
  { [path |-> StoredPath(name), entry |-> entry] :
      name \in ProbeNames,
      entry \in { NoEntry, DirEntry, FileEntry(0, <<>>, ""),
                  [FileEntry(70, PngHeader, "") EXCEPT !.readable = FALSE] }
                \cup { FileEntry(size, sig, "") :
                         size \in ProbeSizes,
                         sig \in { PngHeader, WavHeader, PlainText } } }

\* what the caller passes to is*File: a whole file of one of the contents,
\* under an image and under an audio name
SniffProbes ==
  { [path |-> p, entry |-> FileEntry(Len(sig), sig, "")] :
      p \in InputPaths, sig \in Contents }

FileUtilsInit ==
  /\ server = "fileUtils"
  /\ now = 0
  /\ req = [r \in Requests |-> NewRequest]
  /\ \E probe \in ValidationProbes \cup SniffProbes :
       /\ fs = (probe.path :> probe.entry)
       /\ call = [NoCall EXCEPT !.path = probe.path]

\* validateImageFile(path) is called: it returns at once when existsSync is
\* false, else it awaits stat
ValidateImageFileCall ==
  /\ call.pc = "idle"
  /\ call' = IF existsSync(fs, call.path)
             THEN [call EXCEPT !.fn = "validateImageFile", !.pc = "stat",
                               !.existed = TRUE]
             ELSE [call EXCEPT !.fn = "validateImageFile", !.pc = "returned",
                               !.validation = validateImageFile(FALSE, fs, call.path)]
  /\ UNCHANGED <<server, now, fs, req>>

\* validateAudioFile(path) is called
ValidateAudioFileCall ==
  /\ call.pc = "idle"
  /\ call' = IF existsSync(fs, call.path)
             THEN [call EXCEPT !.fn = "validateAudioFile", !.pc = "stat",
                               !.existed = TRUE]
             ELSE [call EXCEPT !.fn = "validateAudioFile", !.pc = "returned",
                               !.validation = validateAudioFile(FALSE, fs, call.path)]
  /\ UNCHANGED <<server, now, fs, req>>

\* the awaited stat completes and the function returns
ValidateStat ==
  /\ call.pc = "stat"
  /\ call' = [call EXCEPT !.pc = "returned",
       !.validation = IF call.fn = "validateImageFile"
                      THEN validateImageFile(TRUE, fs, call.path)
                      ELSE validateAudioFile(TRUE, fs, call.path)]
  /\ UNCHANGED <<server, now, fs, req>>

\* the file is deleted by someone else while the stat is pending
ConcurrentUnlink ==
  /\ call.pc = "stat"
  /\ existsSync(fs, call.path)
  /\ fs[call.path].kind = "file"
  /\ fs' = unlink(fs, call.path)
  /\ UNCHANGED <<server, now, req, call>>

\* isImageFile(path) is called and returns
IsImageFileCall ==
  /\ call.pc = "idle"
  /\ call' = [call EXCEPT !.fn = "isImageFile", !.pc = "returned",
                          !.answer = isImageFile(fs, call.path)]
  /\ UNCHANGED <<server, now, fs, req>>

\* isAudioFile(path) is called and returns
IsAudioFileCall ==
  /\ call.pc = "idle"
  /\ call' = [call EXCEPT !.fn = "isAudioFile", !.pc = "returned",
                          !.answer = isAudioFile(fs, call.path)]
  /\ UNCHANGED <<server, now, fs, req>>

FileUtilsNext ==
  \/ ValidateImageFileCall
  \/ ValidateAudioFileCall
  \/ ValidateStat
  \/ ConcurrentUnlink
  \/ IsImageFileCall
  \/ IsAudioFileCall

FileUtilsSpec == FileUtilsInit /\ [][FileUtilsNext]_vars

(***************************************************************************)
(* FileUtils.cleanupFiles and FileUtils.cleanOldFiles                      *)
(***************************************************************************)
\* modification times lie up to OldestAge milliseconds before the start
OldestAge == 2
Mtimes == (0 - OldestAge)..0

\* the maxAgeMs a caller passes
MaxAges == 1..OldestAge

\* a file entry with its modification time (stats.mtime)
Aged(entry, mtime) ==
  [kind |-> entry.kind, size |-> entry.size, sig |-> entry.sig,
   owner |-> entry.owner, readable |-> entry.readable, mtime |-> mtime]

\* the directory that is cleaned, two files in it, a subdirectory and a file
\* in the subdirectory
CleanupDir == DirPath(UploadsDir)
CleanupFile1 == StoredPath(FileName("pic", <<"p","n","g">>))
CleanupFile2 == StoredPath(FileName("snd", <<"w","a","v">>))
CleanupSubDir == DirPath(UploadsDir \o <<"sub">>)
CleanupNested == Path(UploadsDir \o <<"sub">>, NoStamp, FileName("note", <<"p","n","g">>))
CleanupPaths == { CleanupDir, CleanupFile1, CleanupFile2, CleanupSubDir, CleanupNested }

\* the paths a caller lists for cleanupFiles
CleanupTargets == { CleanupFile1, CleanupFile2, CleanupSubDir }

\* readdir: the paths of the direct entries of a directory
readdir(f, dirPath) ==
  { p \in DOMAIN f : existsSync(f, p) /\ p.dir = dirPath.dir \o <<dirPath.name.base>> }

\* unlink resolves for a regular file; it rejects with ENOENT for a missing
\* path and with EISDIR/EPERM for a directory
unlinkResolves(f, filePath) == existsSync(f, filePath) /\ f[filePath].kind = "file"

\* mutant: only one of the listed paths is handled
cleanupFiles_map_one(f, filePaths) ==
  LET existing == { filePath \in filePaths : existsSync(f, filePath) }
  IN IF existing = {} THEN {} ELSE { CHOOSE filePath \in existing : TRUE }

\* cleanupFiles, filePaths.map(...): every callback runs to its await, so
\* unlink is called for the listed paths that exist at the call
cleanupFiles_map(f, filePaths) ==
  { filePath \in filePaths : existsSync(f, filePath) }

\* mutant: a file of age exactly maxAgeMs is old
isOld_inclusive(clock, entry, maxAgeMs) ==
  clock - entry.mtime >= maxAgeMs /\ entry.kind = "file"

\* cleanOldFiles line 207: fileAge > maxAgeMs && stats.isFile()
isOld(clock, entry, maxAgeMs) ==
  clock - entry.mtime > maxAgeMs /\ entry.kind = "file"

\* mutant: the count is incremented whether or not unlink resolved
afterUnlink_always(deletedCount, resolved) == deletedCount + 1

\* cleanOldFiles lines 208-209: deletedCount++ runs only when the awaited
\* unlink resolved
afterUnlink(deletedCount, resolved) ==
  IF resolved THEN deletedCount + 1 ELSE deletedCount

\* a call of cleanupFiles or cleanOldFiles: its arguments, its locals, the
\* paths it logged with console.error and how its promise settled
NoCleanup ==
  [fn |-> "", pc |-> "idle", paths |-> {}, attempted |-> {}, pending |-> {},
   logged |-> {}, dir |-> NoPath, maxAgeMs |-> 0, files |-> {}, remaining |-> {},
   filePath |-> NoPath, clock |-> 0, deletedCount |-> 0,
   outcome |-> "pending", result |-> 0]

\* the promise resolves with a value
Return(c, value) ==
  [c EXCEPT !.pc = "returned", !.outcome = "resolved", !.result = value]

\* the for loop of cleanOldFiles: the next file is taken and its stat is
\* awaited, or the loop is over and deletedCount is returned
Iterate(c, file) ==
  IF c.remaining = {}
  THEN Return([c EXCEPT !.filePath = NoPath], c.deletedCount)
  ELSE [c EXCEPT !.pc = "stat", !.filePath = file, !.remaining = @ \ {file}]

\* readdir gives the entries in an order the file system chooses
NextFiles(c) == IF c.remaining = {} THEN { NoPath } ELSE c.remaining

\* the directory is missing, is a regular file, or holds any of the two
\* files with any modification time and the subdirectory with its file
CleanupInit ==
  /\ server = "fileUtils"
  /\ now = 0
  /\ req = [r \in Requests |-> NewRequest]
  /\ call = NoCleanup
  /\ \E dirKind \in { "none", "file", "dir" } :
     \E m1 \in Mtimes \cup { 1 } : \E m2 \in Mtimes \cup { 1 } : \E sub \in BOOLEAN :
       fs = [p \in CleanupPaths |->
               IF p = CleanupDir
               THEN IF dirKind = "dir" THEN Aged(DirEntry, 0 - OldestAge)
                    ELSE IF dirKind = "file"
                    THEN Aged(FileEntry(12, PlainText, ""), 0 - OldestAge)
                    ELSE NoEntry
               ELSE IF dirKind # "dir" THEN NoEntry
               ELSE IF p = CleanupFile1
               THEN IF m1 = 1 THEN NoEntry ELSE Aged(FileEntry(70, PngHeader, ""), m1)
               ELSE IF p = CleanupFile2
               THEN IF m2 = 1 THEN NoEntry ELSE Aged(FileEntry(4454, WavHeader, ""), m2)
               ELSE IF ~sub THEN NoEntry
               ELSE IF p = CleanupSubDir THEN Aged(DirEntry, 0 - OldestAge)
               ELSE Aged(FileEntry(12, PlainText, ""), 0 - OldestAge)]

\* cleanupFiles(filePaths) is called: the existence tests run at once and
\* unlink is started for every path that exists
CleanupFilesCall ==
  /\ call.pc = "idle"
  /\ \E filePaths \in SUBSET CleanupTargets :
       LET started == cleanupFiles_map(fs, filePaths)
           c == [call EXCEPT !.fn = "cleanupFiles", !.paths = filePaths,
                             !.attempted = started, !.pending = started]
       IN call' = IF started = {} THEN Return(c, 0) ELSE [c EXCEPT !.pc = "unlinking"]
  /\ UNCHANGED <<server, now, fs, req>>

\* one of the unlinks started by cleanupFiles settles; a rejection is caught
\* and logged; Promise.all resolves when the last one has settled
CleanupFilesUnlink ==
  /\ call.pc = "unlinking"
  /\ \E filePath \in call.pending :
       LET resolved == unlinkResolves(fs, filePath)
           c == [call EXCEPT !.pending = @ \ {filePath},
                             !.logged = IF resolved THEN @ ELSE @ \cup {filePath}]
       IN /\ fs' = IF resolved THEN unlink(fs, filePath) ELSE fs
          /\ call' = IF c.pending = {} THEN Return(c, 0) ELSE c
  /\ UNCHANGED <<server, now, req>>

\* cleanOldFiles(dirPath, maxAgeMs) is called: 0 at once when existsSync is
\* false, else readdir is awaited
CleanOldFilesCall ==
  /\ call.pc = "idle"
  /\ \E maxAgeMs \in MaxAges :
       LET c == [call EXCEPT !.fn = "cleanOldFiles", !.dir = CleanupDir,
                             !.maxAgeMs = maxAgeMs]
       IN call' = IF ~existsSync(fs, CleanupDir) THEN Return(c, 0)
                  ELSE [c EXCEPT !.pc = "readdir"]
  /\ UNCHANGED <<server, now, fs, req>>

\* readdir settles: it rejects for a path that is not a directory, which
\* nothing catches; else Date.now() is read and the loop starts
CleanOldFilesReaddir ==
  /\ call.pc = "readdir"
  /\ IF fs[call.dir].kind # "dir"
     THEN call' = [call EXCEPT !.pc = "returned", !.outcome = "rejected"]
     ELSE LET files == readdir(fs, call.dir)
              c == [call EXCEPT !.files = files, !.remaining = files, !.clock = now]
          IN \E file \in NextFiles(c) : call' = Iterate(c, file)
  /\ UNCHANGED <<server, now, fs, req>>

\* the stat of the current file settles: a rejection is caught and logged;
\* an old regular file gets its unlink started; the loop goes on otherwise
CleanOldFilesStat ==
  /\ call.pc = "stat"
  /\ IF ~existsSync(fs, call.filePath)
     THEN LET c == [call EXCEPT !.logged = @ \cup {call.filePath}]
          IN \E file \in NextFiles(c) : call' = Iterate(c, file)
     ELSE IF isOld(call.clock, fs[call.filePath], call.maxAgeMs)
     THEN call' = [call EXCEPT !.pc = "unlink"]
     ELSE \E file \in NextFiles(call) : call' = Iterate(call, file)
  /\ UNCHANGED <<server, now, fs, req>>

\* the unlink of the current file settles: deletedCount++ when it resolved,
\* a log entry when it rejected; then the loop goes on
CleanOldFilesUnlink ==
  /\ call.pc = "unlink"
  /\ LET resolved == unlinkResolves(fs, call.filePath)
         c == [call EXCEPT !.deletedCount = afterUnlink(@, resolved),
                           !.logged = IF resolved THEN @ ELSE @ \cup {call.filePath}]
     IN /\ fs' = IF resolved THEN unlink(fs, call.filePath) ELSE fs
        /\ \E file \in NextFiles(c) : call' = Iterate(c, file)
  /\ UNCHANGED <<server, now, req>>

\* another actor (a request's cleanup, another purge) deletes a file while
\* the call is under way
OtherUnlink ==
  /\ call.pc \notin { "idle", "returned" }
  /\ \E filePath \in { CleanupFile1, CleanupFile2 } :
       /\ unlinkResolves(fs, filePath)
       /\ fs' = unlink(fs, filePath)
  /\ UNCHANGED <<server, now, req, call>>

CleanupNext ==
  \/ CleanupFilesCall
  \/ CleanupFilesUnlink
  \/ CleanOldFilesCall
  \/ CleanOldFilesReaddir
  \/ CleanOldFilesStat
  \/ CleanOldFilesUnlink
  \/ OtherUnlink
  \/ Tick

CleanupSpec == CleanupInit /\ [][CleanupNext]_vars

(***************************************************************************)
(* FileUtils.formatFileSize                                                *)
(***************************************************************************)
\* A byte count is written in base 1024, with its three leading digits:
\* top * 1024^exp + next * 1024^(exp-1) + low * 1024^(exp-2), where top >= 1
\* unless the count is 0 (a count of 1024^4 does not fit a machine integer of
\* TLC).
MaxExp == 4

ByteCount(exp, top, next, low) == [exp |-> exp, top |-> top, next |-> next, low |-> low]

ZeroBytes == ByteCount(0, 0, 0, 0)

TopDigits == { 1, 2, 500, 1023 }
NextDigits == { 0, 256, 512, 973, 1023 }
LowDigits == { 0, 512 }

ByteCounts ==
  { ZeroBytes } \cup
  { b \in [exp : 0..MaxExp, top : TopDigits, next : NextDigits, low : LowDigits] :
      (b.exp = 0 => b.next = 0) /\ (b.exp < 2 => b.low = 0) }

\* const sizes = ['B', 'KB', 'MB', 'GB']
sizes == << "B", "KB", "MB", "GB" >>

\* sizes[i]: undefined outside the array, which a template literal prints as
\* "undefined"
sizesAt(i) == IF i + 1 \in DOMAIN sizes THEN sizes[i + 1] ELSE "undefined"

\* Math.floor(Math.log(bytes) / Math.log(1024)) for bytes >= 1: the position
\* of the leading base-1024 digit
floorLog1024(bytes) == bytes.exp

\* (bytes / Math.pow(1024, i)).toFixed(1) for i = floorLog1024(bytes), as the
\* number of tenths: the nearest tenth, the larger one on a tie
toFixed1(bytes, i) ==
  10 * bytes.top + ((10 * (bytes.next * 1024 + bytes.low) + 524288) \div 1048576)

\* FileUtils.formatFileSize: the characters of the string it returns
formatFileSize(bytes) ==
  IF bytes = ZeroBytes THEN << "0", " ", "B" >>
  ELSE LET i == floorLog1024(bytes)
           size == toFixed1(bytes, i)
       IN << ToString(size \div 10), ".", ToString(size % 10), " ", sizesAt(i) >>

NoFormat == [fn |-> "", pc |-> "idle", bytes |-> ZeroBytes, text |-> <<>>]

FormatInit ==
  /\ server = "fileUtils"
  /\ now = 0
  /\ req = [r \in Requests |-> NewRequest]
  /\ fs = (DirPath(UploadsDir) :> DirEntry)
  /\ \E bytes \in ByteCounts : call = [NoFormat EXCEPT !.bytes = bytes]

\* formatFileSize(bytes) is called and returns
FormatFileSizeCall ==
  /\ call.pc = "idle"
  /\ call' = [call EXCEPT !.fn = "formatFileSize", !.pc = "returned",
                          !.text = formatFileSize(call.bytes)]
  /\ UNCHANGED <<server, now, fs, req>>

FormatNext == FormatFileSizeCall

FormatSpec == FormatInit /\ [][FormatNext]_vars

(***************************************************************************)
(* FileUtils.generateUniqueFilename                                        *)
(***************************************************************************)
MaxCalls == 2

\* original names, as their characters
OriginalNames ==
  { << "t", "e", "s", "t", ".", "j", "p", "g" >>,
    << "t", "e", "s", "t" >>,
    << ".", "e", "n", "v" >>,
    << "u", "p", "/", "a", ".", "b", ".", "c" >> }

\* the optional prefix: absent, or "vid"
NoPrefix == << >>
Prefixes == { NoPrefix, << "v", "i", "d" >> }

\* Math.random().toString(36) after "0.": no digit for 0, one digit for 0.5,
\* and two longer expansions that agree in their first six digits
RandomDigits ==
  { << >>,
    << "i" >>,
    << "4", "f", "z", "y", "o", "8", "2", "v" >>,
    << "4", "f", "z", "y", "o", "8", "k", "1" >> }

\* the position of the last c in s, 0 when there is none
lastIndexOf(s, c) ==
  LET at == { k \in 1..Len(s) : s[k] = c }
  IN IF at = {} THEN 0 ELSE CHOOSE k \in at : \A j \in at : j <= k

\* the last segment of a path
lastSegment(s) == SubSeq(s, lastIndexOf(s, "/") + 1, Len(s))

\* path.extname: from the last dot of the last segment, unless that dot is
\* its first character or there is none
path_extname(s) ==
  LET segment == lastSegment(s)
      dot == lastIndexOf(segment, ".")
  IN IF dot <= 1 THEN << >> ELSE SubSeq(segment, dot, Len(segment))

\* path.basename(p, ext): the last segment without the suffix ext
path_basename(s, ext) ==
  LET segment == lastSegment(s)
  IN IF /\ ext # << >>
        /\ Len(segment) > Len(ext)
        /\ SubSeq(segment, Len(segment) - Len(ext) + 1, Len(segment)) = ext
     THEN SubSeq(segment, 1, Len(segment) - Len(ext))
     ELSE segment

\* .substring(2, 8) of "0." followed by the digits
substring_2_8(digits) == SubSeq(digits, 1, IF Len(digits) < 6 THEN Len(digits) ELSE 6)

\* FileUtils.generateUniqueFilename: the characters of the name, for the
\* clock reading and the random number drawn
generateUniqueFilename(originalName, prefix, timestamp, digits) ==
  LET random == substring_2_8(digits)
      extension == path_extname(originalName)
      baseName == path_basename(originalName, extension)
  IN IF prefix # NoPrefix
     THEN prefix \o << "_", ToString(timestamp), "_" >> \o random \o << "_" >>
            \o baseName \o extension
     ELSE << ToString(timestamp), "_" >> \o random \o << "_" >> \o baseName \o extension

NoNames == [fn |-> "", originalName |-> << >>, prefix |-> NoPrefix, names |-> << >>]

NamesInit ==
  /\ server = "fileUtils"
  /\ now = 0
  /\ req = [r \in Requests |-> NewRequest]
  /\ fs = (DirPath(UploadsDir) :> DirEntry)
  /\ \E originalName \in OriginalNames : \E prefix \in Prefixes :
       call = [NoNames EXCEPT !.originalName = originalName, !.prefix = prefix]

\* generateUniqueFilename(originalName, prefix) is called once more and
\* returns
GenerateUniqueFilenameCall ==
  /\ Len(call.names) < MaxCalls
  /\ \E digits \in RandomDigits :
       call' = [call EXCEPT !.fn = "generateUniqueFilename",
                   !.names = Append(@, generateUniqueFilename(call.originalName,
                                          call.prefix, now, digits))]
  /\ UNCHANGED <<server, now, fs, req>>

NamesNext ==
  \/ GenerateUniqueFilenameCall
  \/ Tick

NamesSpec == NamesInit /\ [][NamesNext]_vars

(***************************************************************************)
(* The state machine of a request                                          *)
(***************************************************************************)
\* the response written to the socket, if any
Responded(c) == Len(c.res.wire) > 0
Response(c) == c.res.wire[1]

\* ReceivingFiles -> ValidatingFiles -> Processing -> {Succeeded, Failed}
State(c) ==
  IF Responded(c)
  THEN IF Response(c).status = 200 THEN "Succeeded" ELSE "Failed"
  ELSE CASE c.pc \in {"idle", "received"} -> "ReceivingFiles"
         [] c.pc \in {"image_stat", "audio_stat", "image_unlink", "audio_unlink"}
              -> "ValidatingFiles"
         [] c.pc = "encoding" -> "Processing"
         [] OTHER -> "Unanswered"

Terminal(s) == s \in {"Succeeded", "Failed"}

Rank(s) ==
  CASE s = "ReceivingFiles" -> 0
    [] s = "ValidatingFiles" -> 1
    [] s = "Processing" -> 2
    [] s \in {"Succeeded", "Failed"} -> 3
    [] OTHER -> 0 - 1

\* a field of the form is absent (also: the request is not multipart)
MissingField(c) == ~c.image.present \/ ~c.audio.present

\* the handler of the request has run
Handled(c) == c.pc \notin {"idle", "received"}

\* C1: a request moves forward through ReceivingFiles, ValidatingFiles,
\* Processing to one of Succeeded and Failed; it is Succeeded only out of
\* Processing; a handler that has finished has written exactly one response,
\* with status 200, 400 or 500; and once the response is written neither the
\* state nor what was written changes, whatever the command emits afterwards.
C1_Step(c, d) ==
  /\ Rank(State(d)) >= Rank(State(c))
  /\ Rank(State(d)) >= 0
  /\ (State(d) = "Succeeded" /\ State(c) # "Succeeded") => State(c) = "Processing"
  /\ Terminal(State(c)) => (State(d) = State(c) /\ d.res.wire = c.res.wire)
  /\ Len(d.res.wire) <= 1
  /\ Responded(d) => Response(d).status \in {200, 400, 500}
  /\ d.pc = "done" => Terminal(State(d))

C1_OneTerminalStateOneResponse ==
  [][\A r \in Requests : server \in UploadServers => C1_Step(req[r], req'[r])]_vars

\* C1 witness: a createServer request was answered and its command emitted a
\* further event after the answer
C1_Witness ==
  \E r \in Requests :
    /\ server \in {"createServerA", "createServerB"}
    /\ req[r].command.emitted >= 2
    /\ Len(req[r].res.wire) = 1

(***************************************************************************)
(* The encoder runs only after the checks                                  *)
(***************************************************************************)
\* C2: in the step that starts the command of an upload request both fields
\* are present, both files have passed validation and both paths exist; and
\* a request that lacks a field, whose validation failed or whose existence
\* check failed has no command.
C2_Step(c, d, f) ==
  /\ (~c.command.started /\ d.command.started) =>
       /\ d.image.present /\ d.audio.present
       /\ d.imageValidation.isValid /\ d.audioValidation.isValid
       /\ existsSync(f, d.image.path) /\ existsSync(f, d.audio.path)
  /\ (\/ MissingField(d)
      \/ d.imageValidation.error # <<>>
      \/ d.audioValidation.error # <<>>
      \/ d.result.error.path # NoPath) => ~d.command.started

C2_EncoderOnlyAfterChecks ==
  [][\A r \in Requests :
       server \in UploadServers => C2_Step(req[r], req'[r], fs)]_vars

\* C3: a handled request that lacks the image field, the audio field or both
\* is answered 400 and nothing was thrown
C3_MissingFieldIs400 ==
  \A r \in Requests :
    (Handled(req[r]) /\ MissingField(req[r])) =>
      /\ Responded(req[r])
      /\ Response(req[r]).status = 400
      /\ State(req[r]) = "Failed"

\* the body mentions the name of a form field
Mentions(body, fieldName) ==
  \E i \in DOMAIN body.message :
    body.message[i] \in (IF fieldName = "image" THEN {"image", "Image"}
                         ELSE {"audio", "Audio"})

\* C4: with exactly one field missing the 400 body names that field; with
\* both absent the body is "No files were uploaded."
C4_BodyNamesMissingField ==
  \A r \in Requests :
    LET c == req[r] IN
    (Handled(c) /\ MissingField(c)) =>
      /\ Responded(c)
      /\ Response(c).status = 400
      /\ IF c.image.present THEN Mentions(Response(c).body, "audio")
         ELSE IF c.audio.present THEN Mentions(Response(c).body, "image")
         ELSE Response(c).body.message = <<"No files were uploaded.">>

\* what the validator answers for an uploaded file that is on disk
imageVerdict(file) ==
  validateImageFile(TRUE, (file.path :> FileEntry(file.size, <<>>, "")), file.path)
audioVerdict(file) ==
  validateAudioFile(TRUE, (file.path :> FileEntry(file.size, <<>>, "")), file.path)

\* the validator rejects the image or the audio file of the request
Rejected(c) ==
  /\ c.image.present /\ c.audio.present
  /\ ~imageVerdict(c.image).isValid \/ ~audioVerdict(c.audio).isValid

\* C5: a request with both fields whose image or audio the validator rejects
\* never starts a command, and once handled to the end it is Failed with a
\* 400 whose body carries the validator's message
C5_RejectedIs400 ==
  \A r \in Requests :
    LET c == req[r]
        error == IF ~c.imageValidation.isValid THEN c.imageValidation.error
                 ELSE c.audioValidation.error
    IN
    (Handled(c) /\ Rejected(c)) =>
      /\ ~c.command.started
      /\ c.pc = "done" =>
           /\ Responded(c) /\ Response(c).status = 400
           /\ error # <<>>
           /\ \E n \in 1..Len(Response(c).body.message) :
                SubSeq(Response(c).body.message, n,
                       Len(Response(c).body.message)) = error

\* C6: in the step that answers 400 after validation, every one of the two
\* uploaded files whose validation failed is gone from the upload directory
C6_Step(c, d, f) ==
  (/\ ~Responded(c) /\ Responded(d)
   /\ d.image.present /\ d.audio.present
   /\ Response(d).status = 400) =>
     /\ ~d.imageValidation.isValid => ~existsSync(f, d.image.path)
     /\ ~d.audioValidation.isValid => ~existsSync(f, d.audio.path)

C6_InvalidFilesDeletedBefore400 ==
  [][\A r \in Requests : C6_Step(req[r], req'[r], fs')]_vars

\* C7: a request whose command emitted 'end' first is answered 200 with the
\* JSON body { message: "Video generated successfully!", path } where path is
\* the output path the command was given, which is not empty
C7_SuccessIs200WithPath ==
  \A r \in Requests :
    LET c == req[r] IN
    (server \in UploadServers /\ c.command.first.type = "end") =>
      /\ c.command.outputPath # NoPath
      /\ c.res.wire =
           << [status |-> 200,
               body |-> JsonBody("Video generated successfully!", c.command.outputPath)] >>

\* C7 witness: a middleware request succeeded
C7_Witness ==
  \E r \in Requests :
    /\ server = "middleware"
    /\ req[r].command.first.type = "end"
    /\ State(req[r]) = "Succeeded"
    /\ req[r].result.settled

\* C8: a request whose command emitted 'error' first is Failed with a 500
\* whose body contains the encoder's message unchanged
C8_EncoderErrorPassedThrough ==
  \A r \in Requests :
    LET c == req[r] IN
    (server \in UploadServers /\ c.command.first.type = "error") =>
      /\ Responded(c) /\ Response(c).status = 500
      /\ \E i \in DOMAIN Response(c).body.message :
           Response(c).body.message[i] = c.command.first.message

(***************************************************************************)
(* VideoService.processVideo: existence check and single completion        *)
(***************************************************************************)
\* the step in which VideoService.processVideo is called for the request:
\* by the middleware's processVideo when both validations have passed and
\* the handler leaves validation, or directly by a caller
CallsProcessVideo(c, d) ==
  \/ /\ server = "middleware"
     /\ c.pc \in {"received", "image_stat", "audio_stat"}
     /\ d.imageValidation.isValid /\ d.audioValidation.isValid
  \/ /\ server = "videoService"
     /\ c.pc = "idle" /\ d.pc # "idle"

\* C9: at the call of VideoService.processVideo the command is started only
\* if the image and the audio path exist at that moment; if the image (else
\* the audio) path is missing the promise is settled at once with
\* success=false and an error naming that path, and no command is started
C9_Step(c, d, f) ==
  CallsProcessVideo(c, d) =>
    IF ~existsSync(f, d.image.path)
    THEN /\ ~d.command.started
         /\ d.result = ProcessingResult(FALSE, NoPath,
                         Message(<<"Image file not found: ">>, d.image.path))
    ELSE IF ~existsSync(f, d.audio.path)
    THEN /\ ~d.command.started
         /\ d.result = ProcessingResult(FALSE, NoPath,
                         Message(<<"Audio file not found: ">>, d.audio.path))
    ELSE /\ d.command.started
         /\ ~d.result.settled

C9_ExistenceCheckedBeforeEncoder ==
  [][\A r \in Requests : C9_Step(req[r], req'[r], fs)]_vars

\* C9 witness: an image that passed validation was deleted before
\* VideoService.processVideo was called, which resolved with the image error
C9_Witness ==
  \E r \in Requests :
    /\ server = "middleware"
    /\ req[r].imageValidation.isValid /\ req[r].audioValidation.isValid
    /\ ~req[r].command.started
    /\ req[r].result.settled /\ ~req[r].result.success
    /\ req[r].result.error.path = req[r].image.path

\* the result the first event of a command decides
Decided(command) ==
  IF command.first.type = "end"
  THEN ProcessingResult(TRUE, command.outputPath, NoMessage)
  ELSE ProcessingResult(FALSE, NoPath, Message(<<command.first.message>>, NoPath))

\* C10: once a command of VideoService.processVideo has emitted an event,
\* the promise holds the result its first event decides, whatever was emitted
\* after it, and the caller has run once: the middleware wrote one response
\* for that result and attempted no second one
C10_OneResultPerCall ==
  \A r \in Requests :
    LET c == req[r] IN
    (server \in {"middleware", "videoService"} /\ c.command.emitted >= 1) =>
      /\ c.result = Decided(c.command)
      /\ server = "middleware" =>
           /\ Len(c.res.wire) = 1
           /\ ~c.res.threw
           /\ Response(c).status = IF c.result.success THEN 200 ELSE 500

\* C10 witness: a command of VideoService.processVideo emitted a second event
C10_Witness ==
  \E r \in Requests :
    /\ server = "middleware"
    /\ req[r].command.emitted >= 2
    /\ req[r].result.settled

(***************************************************************************)
(* No retries                                                              *)
(***************************************************************************)
\* C11: the command of a request is built once: once started it stays the
\* same command (same inputs and output), its count of emitted events never
\* falls back and its first event stays; and a request whose command emitted
\* 'error' first is finished, has settled its promise (middleware) and has
\* written exactly one response, which no later step changes.
C11_Step(c, d) ==
  /\ c.command.started =>
       /\ d.command.started
       /\ d.command.imagePath = c.command.imagePath
       /\ d.command.audioPath = c.command.audioPath
       /\ d.command.outputPath = c.command.outputPath
       /\ d.command.emitted >= c.command.emitted
       /\ c.command.emitted > 0 => d.command.first = c.command.first
  /\ c.command.first.type = "error" =>
       /\ d.pc = "done"
       /\ d.result = c.result
       /\ d.res.wire = c.res.wire
  /\ d.command.first.type = "error" =>
       /\ d.pc = "done"
       /\ server \in UploadServers => Len(d.res.wire) = 1
       /\ server \in {"middleware", "videoService"} =>
            d.result.settled /\ ~d.result.success

C11_EncoderStartedOncePerRequest ==
  [][\A r \in Requests : C11_Step(req[r], req'[r])]_vars

\* C11 witness: a middleware request failed on the encoder's error, was
\* answered 500, and its command emitted again afterwards
C11_Witness ==
  \E r \in Requests :
    /\ server = "middleware"
    /\ req[r].command.first.type = "error"
    /\ req[r].command.emitted >= 2
    /\ Len(req[r].res.wire) = 1 /\ Response(req[r]).status = 500

(***************************************************************************)
(* Files written by concurrent requests                                    *)
(***************************************************************************)
\* the request is being handled: received and not yet finished
InFlight(c) == c.pc \notin {"idle", "done"}

\* the paths a request writes in the upload directory: its stored image, its
\* stored audio and the output of its command
WrittenPaths(c) ==
  { p \in { c.image.path, c.audio.path, c.command.outputPath } : p # NoPath }

\* C12: two upload requests that are in flight together write disjoint sets
\* of paths
C12_ConcurrentRequestsWriteDistinctPaths ==
  \A r1 \in Requests : \A r2 \in Requests \ {r1} :
    (server \in UploadServers /\ InFlight(req[r1]) /\ InFlight(req[r2])) =>
      WrittenPaths(req[r1]) \cap WrittenPaths(req[r2]) = {}

(***************************************************************************)
(* Magic bytes before the encoder                                          *)
(***************************************************************************)
\* C13: in the step in which the middleware pipeline starts the command of a
\* request, the image has a whitelisted extension and isImageFile holds of
\* its content, and the audio has a whitelisted extension and isAudioFile
\* holds of its content
C13_Step(c, d, f) ==
  (~c.command.started /\ d.command.started) =>
    /\ toLowerCase(extname(d.image.path)) \in ALLOWED_IMAGE_TYPES
    /\ isImageFile(f, d.image.path)
    /\ toLowerCase(extname(d.audio.path)) \in ALLOWED_AUDIO_TYPES
    /\ isAudioFile(f, d.audio.path)

C13_MagicBytesCheckedBeforeEncoder ==
  [][\A r \in Requests :
       server = "middleware" => C13_Step(req[r], req'[r], fs)]_vars

(***************************************************************************)
(* validateImageFile and validateAudioFile                                 *)
(***************************************************************************)
\* a call of one of the two validators has returned
Validated == call.pc = "returned" /\ call.fn \in {"validateImageFile", "validateAudioFile"}

\* what the path resolves to when the validator returns (nothing changes it
\* after the stat)
Target == fs[call.path]

\* C14: a validator that returns for a path that is not an existing regular
\* file (nothing there, or a directory) returns isValid=false with the error
\* "File does not exist" and no fileInfo
C14_NotARegularFileIsFileDoesNotExist ==
  (Validated /\ Target.kind # "file") =>
    call.validation = ValidationResult(FALSE, <<"File does not exist">>, NoInfo)

\* the ceiling the spec gives for a validator, in MiB, and the word its
\* messages start with
LimitMiB(fn) == IF fn = "validateImageFile" THEN 10 ELSE 50
Kind(fn) == IF fn = "validateImageFile" THEN "Image" ELSE "Audio"

\* C15: for an existing file larger than the ceiling (10 MiB for images, 50
\* MiB for audio) the validator returns isValid=false with the message
\* "<Kind> file too large. Maximum size: <limit>MB", whatever the extension;
\* a file of exactly the ceiling size gets no size message
C15_OverCeilingRejectedWithLimit ==
  (Validated /\ Target.kind = "file") =>
    LET ceiling == LimitMiB(call.fn) * 1024 * 1024
        tooLarge == << Kind(call.fn) \o " file too large. Maximum size: ",
                       ToString(LimitMiB(call.fn)), "MB" >>
    IN /\ Target.size > ceiling =>
            call.validation = ValidationResult(FALSE, tooLarge, NoInfo)
       /\ Target.size <= ceiling => call.validation.error # tooLarge

\* C15 witness: an image one byte over the ceiling, under a name that is not
\* an image name, was rejected for its size
C15_Witness ==
  /\ Validated /\ call.fn = "validateImageFile"
  /\ Target.kind = "file" /\ Target.size = 10 * 1024 * 1024 + 1
  /\ extname(call.path) = <<"t","x","t">>
  /\ ~call.validation.isValid
  /\ call.validation.error[2] = "10"

\* the extensions the spec allows, without the dot
ImageExtensions ==
  { <<"j","p","g">>, <<"j","p","e","g">>, <<"p","n","g">>,
    <<"g","i","f">>, <<"b","m","p">>, <<"w","e","b","p">> }
AudioExtensions ==
  { <<"m","p","3">>, <<"w","a","v">>, <<"a","a","c">>,
    <<"m","4","a">>, <<"f","l","a","c">>, <<"o","g","g">> }
Extensions(fn) == IF fn = "validateImageFile" THEN ImageExtensions ELSE AudioExtensions

\* C16: a validator returns isValid=false for every path whose extension,
\* lower-cased, is outside its allowed set, whatever is at the path and
\* whatever bytes the file starts with
C16_ForeignExtensionRejected ==
  (Validated /\ toLowerCase(extname(call.path)) \notin Extensions(call.fn)) =>
    ~call.validation.isValid

\* C16 witness: a WAV file named note.txt was rejected by validateAudioFile
\* for its format
C16_Witness ==
  /\ Validated /\ call.fn = "validateAudioFile"
  /\ extname(call.path) = <<"t","x","t">>
  /\ Target.kind = "file" /\ Target.sig = WavHeader /\ Target.size = 12
  /\ isAudioFile(fs, call.path)
  /\ ~call.validation.isValid
  /\ call.validation.error[1] = "Invalid audio format. Allowed types: "

\* C17: a validator returns isValid=true exactly when the path is an
\* existing regular file, of size at most the ceiling, whose lower-cased
\* extension is allowed; then there is no error and fileInfo holds the size,
\* the type tag and the lower-cased extension
C17_ValidExactlyWhenFileSizeExtensionFit ==
  Validated =>
    LET fits == /\ Target.kind = "file"
                /\ Target.size <= LimitMiB(call.fn) * 1024 * 1024
                /\ toLowerCase(extname(call.path)) \in Extensions(call.fn)
    IN /\ call.validation.isValid <=> fits
       /\ call.validation.isValid =>
            /\ call.validation.error = <<>>
            /\ call.validation.fileInfo =
                 [size |-> Target.size,
                  type |-> IF call.fn = "validateImageFile" THEN "image" ELSE "audio",
                  extension |-> toLowerCase(extname(call.path))]

(***************************************************************************)
(* isImageFile and isAudioFile                                             *)
(***************************************************************************)
\* a call of one of the two sniffing functions has returned
Sniffed == call.pc = "returned" /\ call.fn \in {"isImageFile", "isAudioFile"}

\* the bytes of the file the call was given
Buffer == fs[call.path].sig

\* the buffer holds the bytes of sig from offset on (offset counts from 0)
HasAt(buffer, offset, sig) ==
  /\ Len(buffer) >= offset + Len(sig)
  /\ SubSeq(buffer, offset + 1, offset + Len(sig)) = sig

\* C18: a sniffing function answers false for a path that is missing, a
\* directory or not readable, and for a file shorter than every signature
\* (the empty file, a one-byte file); and when it answers true, a signature
\* it tests lies wholly within the file
C18_FalseForMissingAndShortFiles ==
  Sniffed =>
    /\ call.answer \in BOOLEAN
    /\ (Target.kind # "file" \/ ~Target.readable) => call.answer = FALSE
    /\ Len(Buffer) < 2 => call.answer = FALSE
    /\ call.answer =>
         \E sig \in { <<255, 216, 255>>, <<137, 80, 78, 71>>, <<71, 73, 70>>,
                      <<66, 77>>, <<82, 73, 70, 70>>, <<255, 251>>, <<73, 68, 51>>,
                      <<102, 76, 97, 67>>, <<79, 103, 103, 83>> } :
           HasAt(Buffer, 0, sig)

\* C18 witness: a file holding only the first two bytes of a JPEG start was
\* sniffed as an image and the answer was false
C18_Witness ==
  /\ Sniffed /\ call.fn = "isImageFile"
  /\ Target.kind = "file" /\ Buffer = <<255, 216>>
  /\ call.answer = FALSE

\* C19: for a readable file isImageFile answers true exactly when the
\* content starts with FF D8 FF, 89 50 4E 47, 47 49 46 or 42 4D, or has RIFF
\* at bytes 0-3 and WEBP at bytes 8-11
C19_ImageSignatures ==
  (Sniffed /\ call.fn = "isImageFile" /\ Target.kind = "file" /\ Target.readable) =>
    (call.answer <=>
       \/ HasAt(Buffer, 0, <<255, 216, 255>>)
       \/ HasAt(Buffer, 0, <<137, 80, 78, 71>>)
       \/ HasAt(Buffer, 0, <<71, 73, 70>>)
       \/ HasAt(Buffer, 0, <<66, 77>>)
       \/ HasAt(Buffer, 0, <<82, 73, 70, 70>>) /\ HasAt(Buffer, 8, <<87, 69, 66, 80>>))

\* C20: for a readable file isAudioFile answers true exactly when the
\* content has RIFF at bytes 0-3 and WAVE at bytes 8-11, or starts with
\* FF FB, 49 44 33, 66 4C 61 43 or 4F 67 67 53; so it is false for a PNG
\* file and for text
C20_AudioSignatures ==
  (Sniffed /\ call.fn = "isAudioFile" /\ Target.kind = "file" /\ Target.readable) =>
    /\ call.answer <=>
         \/ HasAt(Buffer, 0, <<82, 73, 70, 70>>) /\ HasAt(Buffer, 8, <<87, 65, 86, 69>>)
         \/ HasAt(Buffer, 0, <<255, 251>>)
         \/ HasAt(Buffer, 0, <<73, 68, 51>>)
         \/ HasAt(Buffer, 0, <<102, 76, 97, 67>>)
         \/ HasAt(Buffer, 0, <<79, 103, 103, 83>>)
    /\ Buffer \in { PngHeader, PlainText } => call.answer = FALSE

\* C20 witness: a file that starts with an ID3 tag, stored under the image
\* name pic.png, was sniffed as audio and the answer was true
C20_Witness ==
  /\ Sniffed /\ call.fn = "isAudioFile"
  /\ extname(call.path) = <<"p","n","g">>
  /\ HasAt(Buffer, 0, <<73, 68, 51>>)
  /\ call.answer = TRUE

(***************************************************************************)
(* The output directory                                                    *)
(***************************************************************************)
\* the path is an existing directory
isDirectory(f, p) == existsSync(f, p) /\ f[p].kind = "dir"

\* C27: in a step that calls VideoService.processVideo, if the command is
\* started then the directory of its output path and every directory above
\* it exist when the step ends, and nothing else in the filesystem changed;
\* if an input is missing no command is started and the filesystem is left
\* as it was, so no directory is created
C27_Step(c, d, f, g) ==
  CallsProcessVideo(c, d) =>
    IF d.command.started
    THEN /\ \A dir \in Ancestors(dirname(d.command.outputPath)) : isDirectory(g, dir)
         /\ \A p \in DOMAIN f :
              p \notin Ancestors(dirname(d.command.outputPath)) => g[p] = f[p]
    ELSE /\ ~existsSync(f, d.image.path) \/ ~existsSync(f, d.audio.path)
         /\ g = f

C27_OutputDirectoryBeforeEncoder ==
  [][\A r \in Requests : C27_Step(req[r], req'[r], fs, fs')]_vars

\* C27 witness: a direct call asked for output in the nested directory, the
\* command was started and the nested directory exists
C27_Witness ==
  \E r \in Requests :
    /\ server = "videoService"
    /\ req[r].command.started
    /\ req[r].command.outputPath = NestedOutputPath
    /\ isDirectory(fs, NestedOutputDir)
    /\ isDirectory(fs, DirPath(<<"test-output">>))

(***************************************************************************)
(* Concurrent encoder runs                                                 *)
(***************************************************************************)
\* the stored inputs of a request
InputsOf(c) == { p \in { c.image.path, c.audio.path } : p # NoPath }

\* C28: two upload requests with different inputs whose encoder runs are
\* under way together (both started, neither answered) write different
\* output paths and share no stored input; and in the step that answers a
\* request 200 the returned path holds the file its own run wrote and its
\* stored inputs are still the files it uploaded
C28_Concurrent(c1, c2) ==
  (/\ c1.pc = "encoding" /\ c2.pc = "encoding"
   /\ c1.command.started /\ c2.command.started
   /\ InputsOf(c1) \cap InputsOf(c2) = {}) =>
     c1.command.outputPath # c2.command.outputPath

C28_Answered(r, c, d, others, g) ==
  (/\ ~Responded(c) /\ Responded(d) /\ Response(d).status = 200
   /\ \A o \in others : InputsOf(o) \cap InputsOf(d) = {}) =>
    /\ existsSync(g, Response(d).body.path) /\ g[Response(d).body.path].owner = r
    /\ \A p \in InputsOf(d) : existsSync(g, p) => g[p].owner = r

C28_Step(q, q2, g) ==
  /\ \A r1 \in Requests : \A r2 \in Requests \ {r1} : C28_Concurrent(q2[r1], q2[r2])
  /\ \A r \in Requests :
       C28_Answered(r, q[r], q2[r], { q2[o] : o \in Requests \ {r} }, g)

C28_OwnOutputPerRequest ==
  [][(server \in UploadServers) => C28_Step(req, req', fs')]_vars

(***************************************************************************)
(* Image and audio are exclusive                                           *)
(***************************************************************************)
\* C29: a file that isImageFile answers true for gets false from
\* isAudioFile, and a file that isAudioFile answers true for gets false from
\* isImageFile
C29_NotBothImageAndAudio ==
  (Sniffed /\ call.answer) =>
    IF call.fn = "isImageFile" THEN ~isAudioFile(fs, call.path)
    ELSE ~isImageFile(fs, call.path)

(***************************************************************************)
(* Uploaded originals are removed                                          *)
(***************************************************************************)
\* the paths multer writes uploaded files to
UploadedPaths == { StoredPath(cf.originalname) : cf \in ClientFiles }

\* C26: every uploaded file written to the upload directory is eventually
\* deleted: none stays on disk forever
C26_UploadsEventuallyDeleted ==
  \A p \in UploadedPaths : existsSync(fs, p) ~> ~existsSync(fs, p)

(***************************************************************************)
(* Every request is answered                                               *)
(***************************************************************************)
\* a request in Processing changes only by an event of its command, and a
\* request that has arrived never counts as not yet sent again
C30_Step(c, d) ==
  /\ (c.pc = "encoding" /\ d # c) => d.command.emitted = c.command.emitted + 1
  /\ c.pc # "idle" => d.pc # "idle"

\* C30: when every started command emits an end or an error event, there is
\* a point from which on every upload request that has arrived is Succeeded
\* or Failed and has its response; a request is in Processing without a
\* response only while its command has emitted nothing, and nothing but an
\* event of its command takes it out of Processing
C30_EveryRequestAnswered ==
  /\ <>[](\A r \in Requests :
           req[r].pc = "idle" \/ (Responded(req[r]) /\ Terminal(State(req[r]))))
  /\ [](\A r \in Requests :
         (req[r].pc = "encoding" /\ ~Responded(req[r])) => req[r].command.emitted = 0)
  /\ [][\A r \in Requests : C30_Step(req[r], req'[r])]_vars

\* C30 witness: a request waited in Processing while the other request was
\* answered, and was then answered after its command's first event
C30_Witness ==
  \E r \in Requests : \E o \in Requests \ {r} :
    /\ server \in UploadServers
    /\ req[r].command.emitted = 1
    /\ Responded(req[r])
    /\ req[o].pc = "encoding"
    /\ ~Responded(req[o])

(***************************************************************************)
(* cleanupFiles                                                            *)
(***************************************************************************)
\* a step of the call of fn that is under way or starts
StepOf(fn) == call' # call /\ call'.fn = fn

\* C21: cleanupFiles never rejects; it calls unlink for exactly the listed
\* paths that exist at the call and logs nothing for the others; it changes
\* only listed paths; and it returns only when every unlink has settled, so
\* that on return every listed path that was not logged as a failure does not
\* exist, whatever failed for the other paths.
C21_Step ==
  StepOf("cleanupFiles") =>
    /\ call'.outcome # "rejected"
    /\ call.pc = "idle" =>
         call'.attempted = { p \in call'.paths : existsSync(fs, p) }
    /\ call'.logged \subseteq call'.attempted
    /\ \A p \in DOMAIN fs : fs'[p] # fs[p] => p \in call'.paths
    /\ call'.pc = "returned" =>
         /\ call'.pending = {}
         /\ \A p \in call'.paths : p \notin call'.logged => ~existsSync(fs', p)

C21_CleanupFilesDeletesListedPaths == [][C21_Step]_vars

\* C21 witness: cleanupFiles returned after one listed path was missing, the
\* unlink of another failed and a third was deleted
C21_Witness ==
  /\ call.fn = "cleanupFiles"
  /\ call.pc = "returned"
  /\ call.paths = CleanupTargets
  /\ call.attempted # call.paths
  /\ call.logged = { CleanupSubDir }
  /\ call.attempted \ call.logged # {}
  /\ existsSync(fs, CleanupNested)

(***************************************************************************)
(* cleanOldFiles                                                           *)
(***************************************************************************)
\* the modification time of a regular file lies more than maxAgeMs before the
\* clock reading of the call
Expired(entry) ==
  entry.kind = "file" /\ call'.clock - entry.mtime > call'.maxAgeMs

\* C22: cleanOldFiles returns 0 without error for a directory that does not
\* exist; a step of it that changes the file system deletes one regular file
\* that is a direct entry of the directory and whose modification time is
\* more than maxAgeMs before the call's clock reading, and counts it; no
\* other step counts; and when it returns, the value is the count and no
\* such file among the entries it listed is left.
C22_Step ==
  (StepOf("cleanOldFiles") /\ call'.outcome # "rejected") =>
    /\ (call.pc = "idle" /\ ~existsSync(fs, call'.dir)) =>
         (call'.pc = "returned" /\ call'.outcome = "resolved" /\ call'.result = 0)
    /\ fs' # fs =>
         \E p \in readdir(fs, call.dir) :
           /\ Expired(fs[p])
           /\ fs' = [fs EXCEPT ![p] = NoEntry]
           /\ call'.deletedCount = call.deletedCount + 1
    /\ fs' = fs => call'.deletedCount = call.deletedCount
    /\ call'.pc = "returned" =>
         /\ call'.outcome = "resolved"
         /\ call'.result = call'.deletedCount
         /\ \A p \in call'.files : ~(existsSync(fs', p) /\ Expired(fs'[p]))

C22_CleanOldFilesDeletesExpiredFiles == [][C22_Step]_vars

\* C22 witness: cleanOldFiles returned 1 and left a file of age exactly
\* maxAgeMs, the subdirectory and the file in it
C22_Witness ==
  /\ call.fn = "cleanOldFiles"
  /\ call.pc = "returned"
  /\ call.result = 1
  /\ call.logged = {}
  /\ \E p \in { CleanupFile1, CleanupFile2 } :
       existsSync(fs, p) /\ call.clock - fs[p].mtime = call.maxAgeMs
  /\ existsSync(fs, CleanupSubDir)
  /\ existsSync(fs, CleanupNested)

(***************************************************************************)
(* A file disappears under the cleanup                                     *)
(***************************************************************************)
\* the path whose stat or unlink settles in this step
Settling ==
  IF call.fn = "cleanupFiles" THEN call.pending \ call'.pending
  ELSE IF call.pc \in { "stat", "unlink" } THEN { call.filePath } ELSE {}

\* C23: when the stat or the unlink of a path settles and the path has been
\* deleted by someone else since the call saw it, the call does not reject,
\* changes no file, does not count the path, and goes on: the other pending
\* unlinks of cleanupFiles stay pending, the loop of cleanOldFiles takes the
\* next listed file or returns its count when none is left.
C23_Step ==
  \A p \in Settling :
    (call' # call /\ ~existsSync(fs, p)) =>
      /\ call'.outcome # "rejected"
      /\ fs' = fs
      /\ call'.deletedCount = call.deletedCount
      /\ p \in call'.logged
      /\ call.fn = "cleanupFiles" =>
           /\ call'.pending = call.pending \ {p}
           /\ (call'.pc = "returned") = (call'.pending = {})
      /\ call.fn = "cleanOldFiles" =>
           IF call.remaining = {}
           THEN call'.pc = "returned" /\ call'.result = call.deletedCount
           ELSE call'.pc = "stat" /\ call'.filePath \in call.remaining

C23_VanishedFileIsSkipped == [][C23_Step]_vars

\* C23 witness: cleanOldFiles returned 1 after a file it was about to delete
\* had been deleted by someone else
C23_Witness ==
  /\ call.fn = "cleanOldFiles"
  /\ call.pc = "returned"
  /\ call.logged # {}
  /\ call.result = 1
  /\ Cardinality(call.files) >= 2

(***************************************************************************)
(* Unique file names                                                       *)
(***************************************************************************)
\* part occurs in whole as a run of consecutive characters
Contains(whole, part) ==
  \E k \in 0..(Len(whole) - Len(part)) : SubSeq(whole, k + 1, k + Len(part)) = part

EndsWith(whole, part) ==
  /\ Len(whole) >= Len(part)
  /\ SubSeq(whole, Len(whole) - Len(part) + 1, Len(whole)) = part

\* C24: the names returned by any two calls with the same original name and
\* prefix differ, also within one millisecond; each name contains the
\* original base name, ends with the original extension (with the base name
\* when there is none), and contains the prefix when one is given
C24_NamesNeverCollide ==
  LET extension == path_extname(call.originalName)
      baseName == path_basename(call.originalName, extension)
  IN /\ \A i \in DOMAIN call.names : \A j \in DOMAIN call.names :
          i # j => call.names[i] # call.names[j]
     /\ \A i \in DOMAIN call.names :
          /\ Contains(call.names[i], baseName)
          /\ EndsWith(call.names[i], << "_" >> \o baseName \o extension)
          /\ Contains(call.names[i], call.prefix)
          /\ "undefined" \notin { call.names[i][k] : k \in DOMAIN call.names[i] }

(***************************************************************************)
(* Human-readable sizes                                                    *)
(***************************************************************************)
\* the number printed, in tenths, is the nearest to the count divided by
\* 1024^exp
NearestTenth(bytes, tenths) ==
  LET rest == 10 * (bytes.next * 1024 + bytes.low) - (tenths - 10 * bytes.top) * 1048576
  IN 0 - 524288 <= rest /\ rest <= 524288

\* C25: formatFileSize returns "0 B" for 0 and otherwise the count scaled by
\* the largest power of 1024 not above it, with one decimal place, and one of
\* the units B, KB, MB, GB, also for counts of 1024^4 and above; 500 gives
\* "500.0 B", 1024 "1.0 KB", 1536 "1.5 KB", 1048576 "1.0 MB" and 1073741824
\* "1.0 GB"
C25_FormatFileSize ==
  call.pc = "returned" =>
    LET b == call.bytes
    IN /\ b = ZeroBytes => call.text = << "0", " ", "B" >>
       /\ b # ZeroBytes =>
            /\ Len(call.text) = 5
            /\ call.text[2] = "."
            /\ call.text[4] = " "
            /\ call.text[5] \in { "B", "KB", "MB", "GB" }
            /\ \E whole \in 0..1024 : \E tenth \in 0..9 :
                 /\ call.text[1] = ToString(whole)
                 /\ call.text[3] = ToString(tenth)
                 /\ NearestTenth(b, 10 * whole + tenth)
            /\ b.exp <= 3 => call.text[5] = << "B", "KB", "MB", "GB" >>[b.exp + 1]
       /\ b = ByteCount(0, 500, 0, 0) => call.text = << "500", ".", "0", " ", "B" >>
       /\ b = ByteCount(1, 1, 0, 0) => call.text = << "1", ".", "0", " ", "KB" >>
       /\ b = ByteCount(1, 1, 512, 0) => call.text = << "1", ".", "5", " ", "KB" >>
       /\ b = ByteCount(2, 1, 0, 0) => call.text = << "1", ".", "0", " ", "MB" >>
       /\ b = ByteCount(3, 1, 0, 0) => call.text = << "1", ".", "0", " ", "GB" >>

====
